---- MODULE Spec2Model ----
(***************************************************************************)
(* Lemon Squeezy webhook gateway.  The repository holds three versions of  *)
(* the same serverless handler:                                            *)
(*   handler1  src/api/webhook.js:35    raw body stream, hex-decoded compare*)
(*   handler2  src/api/webhook.js:146   parsed body, unsigned posts allowed *)
(*   handler3  src/unnamed/part_000:32  parsed body, signature required     *)
(* A request arrives (Receive), one handler runs on it start to end        *)
(* (handler1, handler2 or handler3), the response leaves (Complete), and    *)
(* the payment provider may deliver the same request again (Redeliver).    *)
(* The users collection of the document store is the only persistent state.*)
(***************************************************************************)
EXTENDS Integers, Sequences, FiniteSets, TLC

VARIABLES
    secret,   \* process.env.LEMON_SQUEEZY_WEBHOOK_SECRET ("" when not set)
    store,    \* users collection: document key -> document (field -> value)
    now,      \* server clock, the value FieldValue.serverTimestamp() yields
    pc,       \* "idle", "received" or "done"
    req,      \* the request being handled
    res,      \* the response of the handler and what it did on the way
    pre,      \* the users collection when the request arrived
    prev      \* response to the previous delivery of this same request

vars == <<secret, store, now, pc, req, res, pre, prev>>

---------------------------------------------------------------------------
(* Bounds *)

\* the clock stops at MaxTime: at most MaxTime deliveries in one behaviour
MaxTime == 2

\* length of the digest in bytes (32 for SHA-256, shortened here)
DigestBytes == 2

---------------------------------------------------------------------------
(* Inputs *)

Methods == {"POST", "GET"}

\* the configured secret is "k1"; senders sign with "k1" or with "k2"
Secrets == {"", "k1"}

Emails == {"a@x.io", "b@x.io"}

\* product names as word sequences; <<>> is a missing product name
ProductNames == {<<>>, <<"Pro", "Yearly", "Plan">>, <<"Pro", "Lifetime", "Plan">>}

DataId == "1001"

\* event.meta.event_name, event.data.id and event.data.attributes;
\* user_email "" is a missing user_email
MkEvent(n, s, e, p) ==
    [name |-> n, status |-> s, user_email |-> e, product_name |-> p, id |-> DataId]

Events ==
    {MkEvent("order_created", s, e, p) :
        s \in {"paid", "refunded"}, e \in Emails \cup {""}, p \in ProductNames}
    \cup {MkEvent("subscription_created", "active", e, <<>>) : e \in Emails \cup {""}}
    \cup {MkEvent("subscription_updated", s, e, <<>>) :
            s \in {"active", "on_trial", "cancelled"}, e \in Emails \cup {""}}
    \cup {MkEvent("order_refunded", "refunded", "a@x.io", <<>>)}

\* The bytes of a body: a JSON text is the event it encodes plus its layout
\* ("compact" is the layout JSON.stringify produces, "spaced" any other);
\* valid = FALSE is a body that is not JSON.
Formats == {"compact", "spaced"}

NotJson == [valid |-> FALSE, event |-> MkEvent("order_refunded", "refunded", "a@x.io", <<>>),
            fmt |-> "compact"]

Bodies == {[valid |-> TRUE, event |-> e, fmt |-> f] : e \in Events, f \in Formats}
          \cup {NotJson}

---------------------------------------------------------------------------
(* JSON *)

\* JSON.stringify(value): always the compact layout
JSONstringify(event) == [valid |-> TRUE, event |-> event, fmt |-> "compact"]

\* JSON.parse(text): the event; callers test .valid first (it throws otherwise)
JSONparse(raw) == raw.event

\* getRawBody(req): the chunks of the stream, concatenated unchanged
getRawBody(r) == r.raw

---------------------------------------------------------------------------
(* Hex strings, buffers and the keyed digest *)

HexDigits == <<"0", "1", "2", "3", "4", "5", "6", "7",
               "8", "9", "a", "b", "c", "d", "e", "f">>

UpperOf == [c \in {"a", "b", "c", "d", "e", "f"} |->
              CASE c = "a" -> "A" [] c = "b" -> "B" [] c = "c" -> "C"
                [] c = "d" -> "D" [] c = "e" -> "E" [] c = "f" -> "F"]

ToUpper(c) == IF c \in DOMAIN UpperOf THEN UpperOf[c] ELSE c

ToLower(c) == IF \E l \in DOMAIN UpperOf : UpperOf[l] = c
              THEN CHOOSE l \in DOMAIN UpperOf : UpperOf[l] = c
              ELSE c

IsHexChar(c) == \E i \in 1..16 : HexDigits[i] = ToLower(c)

HexVal(c) == (CHOOSE i \in 1..16 : HexDigits[i] = ToLower(c)) - 1

RECURSIVE Pow16(_)
Pow16(n) == IF n = 0 THEN 1 ELSE 16 * Pow16(n - 1)

\* digest('hex'): n as len lowercase hex digits, most significant first
RECURSIVE ToHex(_, _)
ToHex(n, len) ==
    IF len = 0 THEN <<>>
    ELSE Append(ToHex(n \div 16, len - 1), HexDigits[(n % 16) + 1])

\* Buffer.from(s, 'hex'): one byte per pair of hex digits, stopping at the
\* first pair that is not two hex digits; a trailing single digit is dropped
RECURSIVE BufferFromHex(_)
BufferFromHex(s) ==
    IF Len(s) < 2 \/ ~IsHexChar(s[1]) \/ ~IsHexChar(s[2]) THEN <<>>
    ELSE <<16 * HexVal(s[1]) + HexVal(s[2])>> \o BufferFromHex(SubSeq(s, 3, Len(s)))

\* Buffer.from(s): the characters themselves (one byte each, ASCII)
BufferFrom(s) == s

\* crypto.timingSafeEqual(a, b): throws on buffers of different length
timingSafeEqual(a, b) ==
    IF Len(a) # Len(b) THEN "throws"
    ELSE IF a = b THEN "true" ELSE "false"

KeyIdx(k) == IF k = "k1" THEN 1 ELSE 2

NameIdx(n) == CASE n = "order_created" -> 0 [] n = "subscription_created" -> 1
                [] n = "subscription_updated" -> 2 [] OTHER -> 3

StatusIdx(s) == CASE s = "paid" -> 0 [] s = "refunded" -> 1 [] s = "active" -> 2
                  [] s = "on_trial" -> 3 [] OTHER -> 4

EmailIdx(e) == CASE e = "" -> 0 [] e = "a@x.io" -> 1 [] OTHER -> 2

ProductIdx(p) == IF p = <<>> THEN 0 ELSE IF p[2] = "Yearly" THEN 1 ELSE 2

\* a number that is different for every (key, bytes) pair
MessageCode(key, raw) ==
    LET e == raw.event IN
    ((((((KeyIdx(key) * 2 + (IF raw.fmt = "compact" THEN 0 ELSE 1)) * 2
         + (IF raw.valid THEN 1 ELSE 0)) * 4 + NameIdx(e.name)) * 5
         + StatusIdx(e.status)) * 3 + EmailIdx(e.user_email)) * 3
         + ProductIdx(e.product_name))

\* crypto.createHmac('sha256', key).update(raw).digest('hex'): a stand-in
\* keyed digest, injective on the messages of the model (the multiplier is
\* odd, the modulus a power of two), written as lowercase hex
HmacHex(key, raw) ==
    ToHex((MessageCode(key, raw) * 40503 + 43981) % Pow16(2 * DigestBytes),
          2 * DigestBytes)

---------------------------------------------------------------------------
(* Requests *)

\* the x-signature header: present = FALSE when the header is not sent
NoSig == [present |-> FALSE, chars |-> <<>>]

Sig(s) == [present |-> TRUE, chars |-> s]

\* !signature in JavaScript: undefined and '' are both falsy
Falsy(sig) == ~sig.present \/ sig.chars = <<>>

Signatures(raw) ==
    LET d == HmacHex("k1", raw) IN
    {NoSig, Sig(<<>>), Sig(d), Sig(HmacHex("k2", raw)),
     Sig(HmacHex("k1", JSONstringify(raw.event))),
     Sig([i \in 1..Len(d) |-> ToUpper(d[i])]),
     Sig(d \o <<"z", "z">>),
     Sig(SubSeq(d, 1, Len(d) - 2))}

---------------------------------------------------------------------------
(* The document store *)

NoDocs == [k \in {} |-> k]

\* set(fields) without the merge option: the document becomes the fields given
replaceSet(st, key, fields) ==
    [k \in DOMAIN st \cup {key} |-> IF k = key THEN fields ELSE st[k]]

\* set(fields, { merge: true }): the fields given replace the document's
\* fields of the same name, every other field stays, a missing document is
\* created
mergeSet(st, key, fields) ==
    LET old == IF key \in DOMAIN st THEN st[key] ELSE NoDocs
        doc == [f \in DOMAIN old \cup DOMAIN fields |->
                  IF f \in DOMAIN fields THEN fields[f] ELSE old[f]]
    IN [k \in DOMAIN st \cup {key} |-> IF k = key THEN doc ELSE st[k]]

\* await db.collection('users').doc(key).set(fields, { merge: true });
\* doc() throws on a key that is not a non-empty string, and the write is
\* rejected when the store fails (ok = FALSE)
docSet(st, key, fields, ok) ==
    IF key = "" \/ ~ok THEN [threw |-> TRUE, store |-> st]
    ELSE [threw |-> FALSE, store |-> mergeSet(st, key, fields)]

---------------------------------------------------------------------------
(* Event projection *)

LowerWord(w) == CASE w = "Pro" -> "pro" [] w = "Yearly" -> "yearly"
                  [] w = "Lifetime" -> "lifetime" [] w = "Plan" -> "plan"
                  [] OTHER -> w

\* productName.toLowerCase().includes('yearly')
includesYearly(productName) ==
    \E i \in 1..Len(productName) : LowerWord(productName[i]) = "yearly"

\* a method test that lets GET through
anyMethodAllowed(method) == method \in {"POST", "GET"}

\* req.method !== 'POST' is answered 405
methodAllowed(method) == method = "POST"

\* the order row without its status test
anyOrder(event) == event.name = "order_created"

\* eventName === 'order_created' && attributes?.status === 'paid'
paidOrder(event) == event.name = "order_created" /\ event.status = "paid"

\* the order row stamping lastUpdated as the status row does
orderCreatedFieldsStamped(event, t) ==
    [email |-> event.user_email,
     subscription |-> "premium",
     subscriptionType |-> IF includesYearly(event.product_name)
                          THEN "yearly" ELSE "lifetime",
     purchaseDate |-> t,
     lastUpdated |-> t,
     lemonSqueezyOrderId |-> event.id,
     productName |-> event.product_name]

orderCreatedFields(event, t) ==
    [email |-> event.user_email,
     subscription |-> "premium",
     subscriptionType |-> IF includesYearly(event.product_name)
                          THEN "yearly" ELSE "lifetime",
     purchaseDate |-> t,
     lemonSqueezyOrderId |-> event.id,
     productName |-> event.product_name]

subscriptionCreatedFields(event, t) ==
    [email |-> event.user_email,
     subscription |-> "premium",
     subscriptionType |-> "yearly",
     subscriptionStartDate |-> t,
     lemonSqueezySubscriptionId |-> event.id]

subscriptionUpdatedFields(event, t) ==
    [email |-> event.user_email,
     subscription |-> IF event.status = "active" \/ event.status = "on_trial"
                      THEN "premium" ELSE "free",
     subscriptionStatus |-> event.status,
     lastUpdated |-> t]

\* what a handler answers and what it did before answering
Reply(status, error, verified, parsed, writes, st) ==
    [res |-> [status |-> status, error |-> error, received |-> status = 200,
              verified |-> verified, parsed |-> parsed, writes |-> writes],
     store |-> st]

InternalError(verified, parsed, st) ==
    Reply(500, "Internal server error", verified, parsed, 0, st)

\* the awaited write, then 200, or the catch block when it throws
Written(w, verified) ==
    IF w.threw THEN InternalError(verified, TRUE, w.store)
    ELSE Reply(200, "", verified, TRUE, 1, w.store)

\* webhook.js:74-98: only the order_created row
eventProjection1(event, st, t, ok, verified) ==
    IF paidOrder(event)
    THEN Written(docSet(st, event.user_email, orderCreatedFields(event, t), ok), verified)
    ELSE Reply(200, "", verified, TRUE, 0, st)

\* webhook.js:192-263
eventProjection2(event, st, t, ok, verified) ==
    IF paidOrder(event)
    THEN Written(docSet(st, event.user_email, orderCreatedFields(event, t), ok), verified)
    ELSE IF event.name = "subscription_created"
    THEN Written(docSet(st, event.user_email, subscriptionCreatedFields(event, t), ok), verified)
    ELSE IF event.name = "subscription_updated"
    THEN Written(docSet(st, event.user_email, subscriptionUpdatedFields(event, t), ok), verified)
    ELSE Reply(200, "", verified, TRUE, 0, st)

\* part_000:65-132
eventProjection3(event, st, t, ok, verified) ==
    IF paidOrder(event)
    THEN Written(docSet(st, event.user_email, orderCreatedFields(event, t), ok), verified)
    ELSE IF event.name = "subscription_created"
    THEN Written(docSet(st, event.user_email, subscriptionCreatedFields(event, t), ok), verified)
    ELSE IF event.name = "subscription_updated"
    THEN Written(docSet(st, event.user_email, subscriptionUpdatedFields(event, t), ok), verified)
    ELSE Reply(200, "", verified, TRUE, 0, st)

---------------------------------------------------------------------------
(* Signature verification *)

\* webhook.js:48-56: both strings are hex-decoded before they are compared
verifySignature1(rawBody, signature, sec) ==
    timingSafeEqual(BufferFromHex(signature.chars),
                    BufferFromHex(HmacHex(sec, rawBody)))

\* webhook.js:126-144: the strings are compared as text, a throw is caught
verifySignature2(rawBody, signature, sec) ==
    IF Falsy(signature) \/ sec = "" THEN "false"
    ELSE LET eq == timingSafeEqual(BufferFrom(signature.chars),
                                   BufferFrom(HmacHex(sec, rawBody)))
         IN IF eq = "throws" THEN "false" ELSE eq

\* part_000:23-30: the strings are compared as text, a throw propagates
verifySignature3(payload, signature, sec) ==
    timingSafeEqual(BufferFrom(signature.chars), BufferFrom(HmacHex(sec, payload)))

---------------------------------------------------------------------------
(* The three handlers: the response and the store after the request *)

handler1Result(r, sec, st, t, ok) ==
    IF ~methodAllowed(r.method)
    THEN Reply(405, "Method not allowed", "none", FALSE, 0, st)
    ELSE
      LET signature == r.signature
          rawBody == getRawBody(r)
          isValid == IF sec # "" /\ ~Falsy(signature)
                     THEN verifySignature1(rawBody, signature, sec)
                     ELSE "skipped"
          verified == CASE isValid = "true" -> "pass"
                        [] isValid = "false" -> "fail"
                        [] isValid = "throws" -> "threw"
                        [] OTHER -> "skipped"
      IN IF isValid = "throws" THEN InternalError(verified, FALSE, st)
         ELSE IF isValid = "false"
         THEN Reply(401, "Invalid signature", verified, FALSE, 0, st)
         ELSE IF ~rawBody.valid THEN InternalError(verified, FALSE, st)
         ELSE eventProjection1(JSONparse(rawBody), st, t, ok, verified)

handler2Result(r, sec, st, t, ok) ==
    IF ~methodAllowed(r.method)
    THEN Reply(405, "Method not allowed", "none", FALSE, 0, st)
    ELSE IF sec = ""
    THEN Reply(500, "Webhook secret not configured", "none", FALSE, 0, st)
    \* req.body: the host's JSON parser throws on a body that is not JSON
    ELSE IF ~r.raw.valid THEN InternalError("none", FALSE, st)
    ELSE
      LET signature == r.signature
          rawBody == JSONstringify(JSONparse(r.raw))
          isValid == IF ~Falsy(signature)
                     THEN verifySignature2(rawBody, signature, sec)
                     ELSE "skipped"
          verified == CASE isValid = "true" -> "pass"
                        [] isValid = "false" -> "fail"
                        [] OTHER -> "skipped"
      IN IF isValid = "false"
         THEN Reply(401, "Invalid signature", verified, TRUE, 0, st)
         ELSE eventProjection2(JSONparse(r.raw), st, t, ok, verified)

handler3Result(r, sec, st, t, ok) ==
    IF ~methodAllowed(r.method)
    THEN Reply(405, "Method not allowed", "none", FALSE, 0, st)
    ELSE IF Falsy(r.signature) \/ sec = ""
    THEN Reply(401, "Unauthorized", "none", FALSE, 0, st)
    \* req.body: the host's JSON parser throws on a body that is not JSON
    ELSE IF ~r.raw.valid THEN InternalError("none", FALSE, st)
    ELSE
      LET rawBody == JSONstringify(JSONparse(r.raw))
          isValid == verifySignature3(rawBody, r.signature, sec)
          verified == CASE isValid = "true" -> "pass"
                        [] isValid = "false" -> "fail"
                        [] OTHER -> "threw"
      IN IF isValid = "throws" THEN InternalError(verified, TRUE, st)
         ELSE IF isValid = "false"
         THEN Reply(401, "Invalid signature", verified, TRUE, 0, st)
         ELSE eventProjection3(JSONparse(r.raw), st, t, ok, verified)

---------------------------------------------------------------------------
(* The state machine *)

NoReq == [method |-> "", raw |-> NotJson, signature |-> NoSig]

NoRes == [status |-> 0, error |-> "", received |-> FALSE,
          verified |-> "none", parsed |-> FALSE, writes |-> 0, by |-> 0]

Init ==
    /\ secret \in Secrets
    /\ store = NoDocs
    /\ now = 0
    /\ pc = "idle"
    /\ req = NoReq
    /\ res = NoRes
    /\ pre = NoDocs
    /\ prev = NoRes

\* a request reaches the function
Receive ==
    /\ pc = "idle"
    /\ now < MaxTime
    /\ \E m \in Methods, b \in Bodies :
         \E s \in Signatures(b) :
            req' = [method |-> m, raw |-> b, signature |-> s]
    /\ now' = now + 1
    /\ pre' = store
    /\ prev' = NoRes
    /\ res' = NoRes
    /\ pc' = "received"
    /\ UNCHANGED <<secret, store>>

Handle(result, by) ==
    /\ pc = "received"
    /\ res' = [status |-> result.res.status, error |-> result.res.error,
               received |-> result.res.received, verified |-> result.res.verified,
               parsed |-> result.res.parsed, writes |-> result.res.writes,
               by |-> by]
    /\ store' = result.store
    /\ pc' = "done"
    /\ UNCHANGED <<secret, now, req, pre, prev>>

handler1 == \E ok \in BOOLEAN : Handle(handler1Result(req, secret, store, now, ok), 1)

handler2 == \E ok \in BOOLEAN : Handle(handler2Result(req, secret, store, now, ok), 2)

handler3 == \E ok \in BOOLEAN : Handle(handler3Result(req, secret, store, now, ok), 3)

\* the response has left; the function waits for the next request
Complete ==
    /\ pc = "done"
    /\ pc' = "idle"
    /\ req' = NoReq
    /\ res' = NoRes
    /\ pre' = store
    /\ prev' = NoRes
    /\ UNCHANGED <<secret, store, now>>

\* the provider delivers the same request once more
Redeliver ==
    /\ pc = "done"
    /\ now < MaxTime
    /\ now' = now + 1
    /\ prev' = res
    /\ pre' = store
    /\ res' = NoRes
    /\ pc' = "received"
    /\ UNCHANGED <<secret, store, req>>

Next == Receive \/ handler1 \/ handler2 \/ handler3 \/ Complete \/ Redeliver

Spec == Init /\ [][Next]_vars

---------------------------------------------------------------------------
(* Properties *)

Done == pc = "done"

Post == req.method = "POST"

\* the header is the lowercase hex digest of the transmitted bytes under the
\* configured secret
CorrectSignature ==
    /\ secret # ""
    /\ req.signature.present
    /\ req.signature.chars = HmacHex(secret, req.raw)

\* the handler checked the signature and accepted it
Authenticated == Done /\ Post /\ res.verified = "pass" /\ req.raw.valid

Event == req.raw.event

MatchesRow(e) ==
    \/ e.name = "order_created" /\ e.status = "paid"
    \/ e.name = "subscription_created"
    \/ e.name = "subscription_updated"

\* the fields the dispatch row of an event names
RowFields(e) ==
    CASE e.name = "order_created" /\ e.status = "paid" ->
           {"email", "subscription", "subscriptionType", "purchaseDate",
            "lemonSqueezyOrderId", "productName"}
      [] e.name = "subscription_created" ->
           {"email", "subscription", "subscriptionType", "subscriptionStartDate",
            "lemonSqueezySubscriptionId"}
      [] e.name = "subscription_updated" ->
           {"email", "subscription", "subscriptionStatus", "lastUpdated"}
      [] OTHER -> {}

\* every document but the one keyed k is as it was when the request arrived
OthersUntouched(k) ==
    /\ DOMAIN store \ {k} = DOMAIN pre \ {k}
    /\ \A d \in DOMAIN store \ {k} : store[d] = pre[d]

\* C1: with a secret configured, a POST whose x-signature is absent or is not
\* the hex HMAC of the body leaves the users store unchanged.
C1_BadSignatureNeverWrites ==
    (Done /\ Post /\ secret # "" /\ ~CorrectSignature) => store = pre

\* C2: with no secret configured, every POST is answered 500 and nothing is
\* written.
C2_NoSecretRejectsAll ==
    (Done /\ Post /\ secret = "") => (res.status = 500 /\ store = pre)

\* C3: with a secret configured, a POST carrying an x-signature that is not
\* the correct digest, whatever its length, is answered 401 'Invalid signature'.
C3_WrongSignatureIs401 ==
    (Done /\ Post /\ secret # "" /\ req.signature.present /\ ~CorrectSignature)
        => (res.status = 401 /\ res.error = "Invalid signature")

\* C4: whenever the handler verifies a supplied signature, it accepts it if
\* and only if it is the lowercase hex HMAC of the bytes as transmitted.
C4_VerifiesExactBytes ==
    (Done /\ Post /\ secret # "" /\ res.verified \in {"pass", "fail", "threw"})
        => (res.verified = "pass" <=> CorrectSignature)

\* C5: an authenticated request whose event matches a dispatch row makes
\* exactly one merge-upsert, on the document keyed by user_email, and is
\* answered 200.
C5_ExactlyOneUpsert ==
    (Authenticated /\ MatchesRow(Event))
        => /\ res.writes = 1
           /\ res.status = 200
           /\ Event.user_email \in DOMAIN store
           /\ OthersUntouched(Event.user_email)

\* C6: an authenticated request whose event matches no dispatch row writes
\* nothing and is answered 200 {received: true}.
C6_UnmatchedIsAcknowledged ==
    (Authenticated /\ ~MatchesRow(Event))
        => /\ store = pre
           /\ res.writes = 0
           /\ res.status = 200
           /\ res.received

C6_Witness ==
    /\ Authenticated
    /\ Event.name = "order_created" /\ Event.status = "refunded"
    /\ res.status = 200
    /\ pre # NoDocs

\* the second of two deliveries of one authenticated paid order_created event,
\* the first of which was written
RedeliveredPaidOrder ==
    /\ Done /\ Post /\ req.raw.valid
    /\ Event.name = "order_created" /\ Event.status = "paid"
    /\ prev.verified = "pass" /\ prev.status = 200 /\ prev.writes = 1

\* C7 as stated: the second delivery of the same authenticated paid
\* order_created event leaves every field of every record, purchaseDate
\* included, as the first delivery left it.
C7_RedeliveryChangesNothing ==
    RedeliveredPaidOrder => store = pre

\* C7 amended: the second delivery leaves every record as the first delivery
\* left it, except the purchaseDate of the record keyed by user_email.
C7_RedeliveryChangesOnlyPurchaseDate ==
    RedeliveredPaidOrder =>
        /\ DOMAIN store = DOMAIN pre
        /\ \A k \in DOMAIN store :
             /\ DOMAIN store[k] = DOMAIN pre[k]
             /\ \A f \in DOMAIN store[k] :
                  \/ k = Event.user_email /\ f = "purchaseDate"
                  \/ store[k][f] = pre[k][f]

C7_Witness ==
    /\ RedeliveredPaidOrder
    /\ res.verified = "pass" /\ res.writes = 1
    /\ store[Event.user_email].purchaseDate # pre[Event.user_email].purchaseDate

\* C8: a request whose method is not POST is answered 405 'Method not
\* allowed' with no signature check, no parsing of the body and no write.
C8_OnlyPost ==
    (Done /\ ~Post)
        => /\ res.status = 405
           /\ res.error = "Method not allowed"
           /\ res.verified = "none"
           /\ ~res.parsed
           /\ res.writes = 0
           /\ store = pre

C8_Witness ==
    /\ Done /\ req.method = "GET"
    /\ CorrectSignature
    /\ req.raw.valid /\ Event.name = "order_created" /\ Event.status = "paid"
    /\ Event.user_email # ""
    /\ res.status = 405

\* C9: after an authenticated subscription_updated event is processed for an
\* email, the record's subscription is 'premium' exactly when the status is
\* 'active' or 'on_trial' and 'free' otherwise, and its subscriptionStatus is
\* the event's status.
C9_StatusMapsToSubscription ==
    (Authenticated /\ Event.name = "subscription_updated"
       /\ Event.user_email # "" /\ res.status = 200)
        => /\ Event.user_email \in DOMAIN store
           /\ {"subscription", "subscriptionStatus"}
                 \subseteq DOMAIN store[Event.user_email]
           /\ store[Event.user_email].subscription =
                 (IF Event.status \in {"active", "on_trial"} THEN "premium" ELSE "free")
           /\ store[Event.user_email].subscriptionStatus = Event.status

\* C10: a request changes only the fields its event's dispatch row names, on
\* the record keyed by its user_email; every other field and record stays,
\* and no record or field is ever removed.
C10_WritesAreMerges ==
    Done =>
        LET named == IF req.raw.valid THEN RowFields(Event) ELSE {} IN
        /\ DOMAIN pre \subseteq DOMAIN store
        /\ \A k \in DOMAIN store :
             LET was == IF k \in DOMAIN pre THEN pre[k] ELSE NoDocs IN
             /\ DOMAIN was \subseteq DOMAIN store[k]
             /\ \A f \in DOMAIN store[k] :
                  \/ k = Event.user_email /\ f \in named
                  \/ f \in DOMAIN was /\ store[k][f] = was[f]

C10_Witness ==
    /\ Done /\ res.writes = 1
    /\ Event.name = "subscription_updated"
    /\ Event.user_email \in DOMAIN pre
    /\ "purchaseDate" \in DOMAIN pre[Event.user_email]
    /\ store[Event.user_email].purchaseDate = pre[Event.user_email].purchaseDate
    /\ store[Event.user_email].subscription # pre[Event.user_email].subscription

====
